---- MODULE Spec2Model ----
(***************************************************************************)
(* Peak oxygen-uptake pipeline of 峰值氧摄取量测定与平台判定.py:            *)
(* read_and_prepare_data -> perform_30s_rolling_average -> derived columns *)
(* -> get_key_metrics_summary -> get_vo2_percentage_table.                 *)
(*                                                                         *)
(* Numbers are exact rationals [k |-> "num", n, d] (n/d in lowest terms,   *)
(* d > 0); NaN, +/-inf, None and text are separate kinds, so that a        *)
(* missing value is never confused with a number.  Text (column labels,    *)
(* time cells) is a sequence of one-character strings.  The characters     *)
(* "SUB2", "TI" and "ZHONG" stand for the non-ASCII characters of the      *)
(* alias table (subscript two, and the two characters of the body-mass     *)
(* label).                                                                 *)
(***************************************************************************)
EXTENDS Integers, Sequences, FiniteSets, TLC

VARIABLES
    pc,          \* position in the run
    table,       \* the uploaded table, as read from the spreadsheet
    df_raw,      \* read_and_prepare_data's result
    smoothed_df, \* perform_30s_rolling_average's result
    final_df,    \* the smoothed table with the derived columns
    summary,     \* get_key_metrics_summary's result
    peak_arg,    \* the peak handed to get_vo2_percentage_table
    pct_df,      \* get_vo2_percentage_table's result
    err          \* the exception that ended the run, or "none"

vars == <<pc, table, df_raw, smoothed_df, final_df, summary, peak_arg, pct_df, err>>

(***************************************************************************)
(* Bounds of the model.                                                    *)
(***************************************************************************)
MaxRows == 5
MaxTimeRows == 2
MaxPad == 1

(***************************************************************************)
(* Program constants (lines 17-20).                                        *)
(***************************************************************************)
SamplingInterval == 10
WindowDuration == 30
ROLL_WINDOW_ROWS == WindowDuration \div SamplingInterval
\* 0.15 as the rational ThresholdNum / ThresholdDen
ThresholdNum == 15
ThresholdDen == 100
DefaultBodyMass == 70

(***************************************************************************)
(* Values and float arithmetic (numpy semantics, exact on rationals).      *)
(***************************************************************************)
NaN == [k |-> "nan"]
None == [k |-> "none"]
Inf(sg) == [k |-> "inf", sg |-> sg]
Str(s) == [k |-> "str", s |-> s]

Abs(a) == IF a < 0 THEN -a ELSE a
Sgn(a) == IF a < 0 THEN -1 ELSE IF a = 0 THEN 0 ELSE 1

RECURSIVE GCD(_, _)
GCD(a, b) == IF b = 0 THEN a ELSE GCD(b, a % b)

Rat(n, d) ==
    LET g == GCD(Abs(n), Abs(d))
        s == IF d < 0 THEN -1 ELSE 1
    IN  [k |-> "num", n |-> (s * n) \div g, d |-> (s * d) \div g]

Num(n) == Rat(n, 1)

IsNum(x) == x.k = "num"
IsInf(x) == x.k = "inf"
\* pd.isna / pd.notna on a scalar: NaN and None are missing, text is not
IsNa(x) == x.k \in {"nan", "none"}
NotNa(x) == ~IsNa(x)
\* sign of an extended real
SignOf(x) == IF IsInf(x) THEN x.sg ELSE Sgn(x.n)

FAdd(x, y) ==
    IF x.k = "nan" \/ y.k = "nan" THEN NaN
    ELSE IF IsInf(x) /\ IsInf(y) THEN (IF x.sg = y.sg THEN x ELSE NaN)
    ELSE IF IsInf(x) THEN x
    ELSE IF IsInf(y) THEN y
    ELSE Rat(x.n * y.d + y.n * x.d, x.d * y.d)

FNeg(x) ==
    IF x.k = "nan" THEN NaN
    ELSE IF IsInf(x) THEN Inf(-x.sg)
    ELSE Rat(-x.n, x.d)

FSub(x, y) == FAdd(x, FNeg(y))

FMul(x, y) ==
    IF x.k = "nan" \/ y.k = "nan" THEN NaN
    ELSE IF IsInf(x) \/ IsInf(y)
         THEN (IF SignOf(x) * SignOf(y) = 0 THEN NaN
               ELSE Inf(SignOf(x) * SignOf(y)))
    ELSE Rat(x.n * y.n, x.d * y.d)

\* float division: x/0 is +/-inf, 0/0 is NaN, nothing raises
FDiv(x, y) ==
    IF x.k = "nan" \/ y.k = "nan" THEN NaN
    ELSE IF IsInf(x) /\ IsInf(y) THEN NaN
    ELSE IF IsInf(x) THEN Inf(IF SignOf(y) < 0 THEN -x.sg ELSE x.sg)
    ELSE IF IsInf(y) THEN Num(0)
    ELSE IF y.n = 0 THEN (IF x.n = 0 THEN NaN ELSE Inf(Sgn(x.n)))
    ELSE Rat(x.n * y.d, x.d * y.n)

\* x < y on floats: any comparison with NaN is False
FLt(x, y) ==
    IF x.k = "nan" \/ y.k = "nan" THEN FALSE
    ELSE IF IsInf(x) THEN (x.sg = -1 /\ y # x)
    ELSE IF IsInf(y) THEN y.sg = 1
    ELSE x.n * y.d < y.n * x.d

FGe(x, y) ==
    IF x.k = "nan" \/ y.k = "nan" THEN FALSE
    ELSE ~FLt(x, y)

Pow10(e) == IF e = 0 THEN 1 ELSE IF e = 1 THEN 10 ELSE 100

\* round(x, nd): round-half-even to nd decimals; NaN and inf are kept
Round(x, nd) ==
    IF ~IsNum(x) THEN x
    ELSE LET p == x.n * Pow10(nd)
             q == x.d
             fl == p \div q
             r2 == 2 * (p - fl * q)
             up == r2 > q \/ (r2 = q /\ fl % 2 = 1)
         IN  Rat(IF up THEN fl + 1 ELSE fl, Pow10(nd))

\* int(x): truncation toward zero
IntOf(x) == Num(Sgn(x.n) * (Abs(x.n) \div x.d))

(***************************************************************************)
(* Text.                                                                   *)
(***************************************************************************)
Digits == <<"0", "1", "2", "3", "4", "5", "6", "7", "8", "9">>
IsDigit(c) == \E i \in 1..10 : Digits[i] = c
DigitVal(c) == (CHOOSE i \in 1..10 : Digits[i] = c) - 1

RECURSIVE LStrip(_)
LStrip(s) == IF s # <<>> /\ Head(s) = " " THEN LStrip(Tail(s)) ELSE s

RECURSIVE RStrip(_)
RStrip(s) ==
    IF s # <<>> /\ s[Len(s)] = " " THEN RStrip(SubSeq(s, 1, Len(s) - 1)) ELSE s

\* str.strip()
Strip(s) == RStrip(LStrip(s))

\* re.split('[:.]', s): the fields between the separators ':' and '.'
RECURSIVE ReSplit(_, _, _)
ReSplit(s, cur, acc) ==
    IF s = <<>> THEN Append(acc, cur)
    ELSE IF Head(s) \in {":", "."} THEN ReSplit(Tail(s), <<>>, Append(acc, cur))
    ELSE ReSplit(Tail(s), Append(cur, Head(s)), acc)

RECURSIVE DigitsValue(_, _)
DigitsValue(s, acc) ==
    IF s = <<>> THEN acc ELSE DigitsValue(Tail(s), 10 * acc + DigitVal(Head(s)))

\* int(text): optional surrounding blanks, optional sign, at least one digit
IntOk(s) ==
    LET b == Strip(s)
        u == IF b # <<>> /\ Head(b) \in {"-", "+"} THEN Tail(b) ELSE b
    IN  u # <<>> /\ \A i \in 1..Len(u) : IsDigit(u[i])

IntVal(s) ==
    LET b == Strip(s)
        u == IF b # <<>> /\ Head(b) \in {"-", "+"} THEN Tail(b) ELSE b
    IN  IF b # <<>> /\ Head(b) = "-" THEN -DigitsValue(u, 0) ELSE DigitsValue(u, 0)

(***************************************************************************)
(* Column names (lines 17, 20-28, 71-75).                                  *)
(***************************************************************************)
RAW_TIME_COL == <<"t">>
cVO2 == <<"V", "'", "O", "2">>
cVCO2 == <<"V", "'", "C", "O", "2">>
cVE == <<"V", "'", "E">>
cHR == <<"H", "R">>
cVT == <<"V", "T">>
cBF == <<"B", "F">>
cBodyMass == <<"B", "o", "d", "y", "M", "a", "s", "s">>
COLS_TO_PROCESS == <<cVO2, cVCO2, cVE, cHR, cVT, cBF>>

\* f"{col}_30s"
Suffix30s(col) == col \o <<"_", "3", "0", "s">>
vo2_col == Suffix30s(cVO2)
vco2_col == Suffix30s(cVCO2)
ve_col == Suffix30s(cVE)
hr_col == Suffix30s(cHR)
vo2_kg_col == <<"V", "'", "O", "2", "/", "k", "g", "_", "3", "0", "s">>
rer_col == <<"R", "E", "R", "_", "3", "0", "s">>

\* the alias table, as <<alias, canonical name>> pairs
CANONICAL_NAMES ==
    { <<<<"V", "O", "2">>, cVO2>>,
      <<<<"V", "'", "O", "SUB2">>, cVO2>>,
      <<<<"V", "C", "O", "2">>, cVCO2>>,
      <<<<"V", "C", "O", "SUB2">>, cVCO2>>,
      <<<<"V", "E">>, cVE>>,
      <<<<"V", "'", "E", " ">>, cVE>>,
      <<<<"H", "e", "a", "r", "t", "R", "a", "t", "e">>, cHR>>,
      <<<<"H", "R", " ", "(", "b", "p", "m", ")">>, cHR>>,
      <<<<"t">>, RAW_TIME_COL>>,
      <<<<"T", "i", "m", "e">>, RAW_TIME_COL>>,
      <<<<"TI", "ZHONG">>, cBodyMass>> }

Aliases == {p[1] : p \in CANONICAL_NAMES}

\* df.rename(columns=CANONICAL_NAMES): exact lookup of the label in the table
RenameLabelExactCase(label) ==
    IF label \in Aliases
    THEN (CHOOSE p \in CANONICAL_NAMES : p[1] = label)[2]
    ELSE label

\* the rename without the strip of line 33
NormalizeLabelNoStrip(label) == RenameLabelExactCase(label)

\* lines 33-34: str(c).strip(), then the rename
NormalizeLabel(label) == RenameLabelExactCase(Strip(label))

(***************************************************************************)
(* Tables: a sequence of columns [name, cells]; cells is the column's      *)
(* values in row order.                                                    *)
(***************************************************************************)
Column(name, cells) == [name |-> name, cells |-> cells]
NRows(df) == IF df = <<>> THEN 0 ELSE Len(df[1].cells)
Has(df, name) == \E i \in 1..Len(df) : df[i].name = name
Col(df, name) == df[CHOOSE i \in 1..Len(df) : df[i].name = name].cells
SetCol(df, name, cells) ==
    IF Has(df, name)
    THEN [i \in 1..Len(df) |->
            IF df[i].name = name THEN Column(name, cells) ELSE df[i]]
    ELSE Append(df, Column(name, cells))

\* Series.ffill(): carry the last valid value forward
RECURSIVE FFillFrom(_, _)
FFillFrom(cells, last) ==
    IF cells = <<>> THEN <<>>
    ELSE LET v == IF IsNa(Head(cells)) THEN last ELSE Head(cells)
         IN  <<v>> \o FFillFrom(Tail(cells), v)
FFill(cells) == FFillFrom(cells, NaN)

Reverse(s) == [i \in 1..Len(s) |-> s[Len(s) + 1 - i]]
\* Series.bfill(): carry the next valid value backward
BFill(cells) == Reverse(FFill(Reverse(cells)))

(***************************************************************************)
(* read_and_prepare_data (lines 31-59).                                    *)
(***************************************************************************)
\* the three-field and two-field branches succeed only if every int() does
AllInt(parts, n) == \A i \in 1..n : IntOk(parts[i])

\* parse_time(s) for a text cell (lines 38-50)
parse_time(s) ==
    LET parts == ReSplit(s, <<>>, <<>>)
    IN  IF Len(parts) >= 3
        THEN (IF AllInt(parts, 3)
              THEN Num(IntVal(parts[1]) * 3600 + IntVal(parts[2]) * 60
                       + IntVal(parts[3]))
              ELSE NaN)
        ELSE IF Len(parts) = 2
        THEN (IF AllInt(parts, 2)
              THEN Num(IntVal(parts[1]) * 60 + IntVal(parts[2]))
              ELSE NaN)
        ELSE (IF IntOk(s) THEN Num(IntVal(s)) ELSE NaN)

\* re.split on a cell that is not text raises TypeError before the try
ParseRaises(cell) == cell.k # "str"

\* line 37: the column's dtype is object (it holds text, or has no rows)
HoldsText(cells) == cells = <<>> \/ \E i \in 1..Len(cells) : cells[i].k = "str"

\* lines 35-52: the elapsed-time column
PrepareTime(df) ==
    IF ~Has(df, RAW_TIME_COL)
    THEN [exc |-> "none",
          df |-> SetCol(df, RAW_TIME_COL,
                        [i \in 1..NRows(df) |-> Num((i - 1) * SamplingInterval)])]
    ELSE LET cells == Col(df, RAW_TIME_COL)
         IN  IF ~HoldsText(cells) THEN [exc |-> "none", df |-> df]
             ELSE IF \E i \in 1..Len(cells) : ParseRaises(cells[i])
             THEN [exc |-> "TypeError", df |-> df]
             ELSE [exc |-> "none",
                   df |-> SetCol(df, RAW_TIME_COL,
                            FFill([i \in 1..Len(cells) |-> parse_time(cells[i].s)]))]

\* lines 54-58: the body-mass column
PrepareBodyMass(df) ==
    IF ~Has(df, cBodyMass)
    THEN SetCol(df, cBodyMass, [i \in 1..NRows(df) |-> Num(DefaultBodyMass)])
    ELSE SetCol(df, cBodyMass, BFill(FFill(Col(df, cBodyMass))))

read_and_prepare_data(tbl) ==
    LET renamed == [i \in 1..Len(tbl) |->
                      Column(NormalizeLabel(tbl[i].name), tbl[i].cells)]
        timed == PrepareTime(renamed)
    IN  IF timed.exc # "none" THEN timed
        ELSE [exc |-> "none", df |-> PrepareBodyMass(timed.df)]

(***************************************************************************)
(* perform_30s_rolling_average (lines 62-67).                              *)
(***************************************************************************)
RECURSIVE SumCells(_, _)
SumCells(cells, rows) ==
    IF rows = {} THEN Num(0)
    ELSE LET j == CHOOSE r \in rows : TRUE
         IN  FAdd(cells[j], SumCells(cells, rows \ {j}))

\* Series.rolling(window, min_periods).mean() at row i: the mean of the
\* non-missing values among the last `window` rows, if there are at least
\* min_periods of them
RollingMeanAt(cells, i, window, min_periods) ==
    LET win == {j \in 1..Len(cells) : j > i - window /\ j <= i}
        obs == {j \in win : ~IsNa(cells[j])}
    IN  IF Cardinality(obs) >= min_periods
        THEN FDiv(SumCells(cells, obs), Num(Cardinality(obs)))
        ELSE NaN

\* rolling(window=3, min_periods=1): a mean of fewer than three values
rolling_mean_min_periods_1(cells) ==
    [i \in 1..Len(cells) |-> RollingMeanAt(cells, i, ROLL_WINDOW_ROWS, 1)]

\* line 66
rolling_mean(cells) ==
    [i \in 1..Len(cells) |->
        RollingMeanAt(cells, i, ROLL_WINDOW_ROWS, ROLL_WINDOW_ROWS)]

RECURSIVE AddRolled(_, _, _)
AddRolled(df_rolled, df, cols) ==
    IF cols = <<>> THEN df_rolled
    ELSE LET col == Head(cols)
         IN  AddRolled(IF Has(df, col)
                       THEN SetCol(df_rolled, Suffix30s(col),
                                   rolling_mean(Col(df, col)))
                       ELSE df_rolled,
                       df, Tail(cols))

perform_30s_rolling_average(df) == AddRolled(df, df, COLS_TO_PROCESS)

(***************************************************************************)
(* Derived columns of the pipeline (lines 141-146).                        *)
(***************************************************************************)
InSeq(x, s) == \E i \in 1..Len(s) : s[i] = x
SeqMap30s(cols) == [i \in 1..Len(cols) |-> Suffix30s(cols[i])]
ColumnNames(df) == [i \in 1..Len(df) |-> df[i].name]
DivCols(a, b) == [i \in 1..Len(a) |-> FDiv(a[i], b[i])]
ScaleCol(a, c) == [i \in 1..Len(a) |-> FMul(a[i], c)]

\* smoothed_df[smooth_cols + original_cols]
SelectColumns(df, names) == [i \in 1..Len(names) |-> Column(names[i], Col(df, names[i]))]

\* x / 0 on float columns gives inf (or NaN for 0 / 0)
rer_column(vco2, vo2) == DivCols(vco2, vo2)

derived_metrics(sdf, raw) ==
    LET smooth_cols == SelectSeq(SeqMap30s(COLS_TO_PROCESS),
                                 LAMBDA c : Has(sdf, c))
        original_cols == SelectSeq(ColumnNames(raw),
                                   LAMBDA c : ~InSeq(c, COLS_TO_PROCESS))
        selected == SelectColumns(sdf, smooth_cols \o original_cols)
    IN  IF ~Has(selected, vo2_col) THEN [exc |-> "KeyError", df |-> selected]
        ELSE LET withkg ==
                   SetCol(selected, vo2_kg_col,
                          ScaleCol(DivCols(Col(selected, vo2_col),
                                           Col(selected, cBodyMass)),
                                   Num(1000)))
             IN  IF ~Has(withkg, vco2_col)
                 THEN [exc |-> "KeyError", df |-> withkg]
                 ELSE [exc |-> "none",
                       df |-> SetCol(withkg, rer_col,
                                     rer_column(Col(withkg, vco2_col),
                                                Col(withkg, vo2_col)))]

(***************************************************************************)
(* get_key_metrics_summary (lines 70-93).                                  *)
(***************************************************************************)
NA == Str(<<"N", "/", "A">>)
VO2_PLATEAU_THRESHOLD == Rat(ThresholdNum, ThresholdDen)

\* Series.dropna(): the non-missing values with their row labels
DropNa(cells) ==
    SelectSeq([i \in 1..Len(cells) |-> [i |-> i, v |-> cells[i]]],
              LAMBDA e : ~IsNa(e.v))

\* Series.diff(): first entry NaN, then the successive differences
Diff(ser) ==
    [j \in 1..Len(ser) |-> IF j = 1 THEN NaN ELSE FSub(ser[j].v, ser[j - 1].v)]

\* s.iloc[-n:]
TailN(s, n) == SubSeq(s, IF Len(s) > n THEN Len(s) - n + 1 ELSE 1, Len(s))

\* line 79
is_plateau(vo2_series) ==
    LET vo2_diff == Diff(vo2_series)
        last2 == TailN(vo2_diff, 2)
    IN  IF Len(vo2_diff) >= 2
        THEN \A j \in 1..Len(last2) : FLt(last2[j], VO2_PLATEAU_THRESHOLD)
        ELSE FALSE

\* Series.max() (skipna): NaN for an empty or all-missing series
SeriesMax(cells) ==
    LET vals == {cells[i] : i \in {j \in 1..Len(cells) : ~IsNa(cells[j])}}
    IN  IF vals = {} THEN NaN
        ELSE CHOOSE v \in vals : \A w \in vals : ~FLt(v, w)

\* Series.idxmax() of a non-empty series without missing values: the label
\* of the first maximum
IdxMax(ser) ==
    LET m == SeriesMax([j \in 1..Len(ser) |-> ser[j].v])
    IN  ser[CHOOSE j \in 1..Len(ser) :
              ser[j].v = m /\ \A h \in 1..(j - 1) : ser[h].v # m].i

\* Series.mean() (skipna) of values without NaN: NaN when empty
SeriesMean(vals) ==
    IF vals = <<>> THEN NaN
    ELSE FDiv(SumCells(vals, 1..Len(vals)), Num(Len(vals)))

Values(ser) == [j \in 1..Len(ser) |-> ser[j].v]

\* line 87
peak_entry(vo2_peak_value) ==
    IF NotNa(vo2_peak_value) THEN Round(vo2_peak_value, 2) ELSE NA

\* line 88
peak_kg_entry(vo2_peak_kg_value) ==
    IF NotNa(vo2_peak_kg_value) THEN Round(vo2_peak_kg_value, 1) ELSE NA

\* line 89
ve_entry(df) ==
    IF Has(df, ve_col) THEN Round(SeriesMax(Col(df, ve_col)), 1) ELSE NA

\* line 90
hr_entry(df) ==
    IF Has(df, hr_col) /\ NotNa(SeriesMax(Col(df, hr_col)))
    THEN IntOf(SeriesMax(Col(df, hr_col)))
    ELSE NA

\* line 91
rer_entry(df) ==
    IF Has(df, rer_col)
    THEN Round(SeriesMean(Values(TailN(DropNa(Col(df, rer_col)), 3))), 2)
    ELSE NA

get_key_metrics_summary(df_smoothed) ==
    IF ~Has(df_smoothed, vo2_col) THEN [exc |-> "KeyError"]
    ELSE LET vo2_series == DropNa(Col(df_smoothed, vo2_col))
             plateau == is_plateau(vo2_series)
             vo2_peak_value == SeriesMax(Values(vo2_series))
         IN  \* idxmax of an empty series raises ValueError
             IF vo2_series = <<>> THEN [exc |-> "ValueError"]
             ELSE LET peak_idx == IdxMax(vo2_series)
                      vo2_peak_kg_value ==
                          IF Has(df_smoothed, vo2_kg_col)
                          THEN Col(df_smoothed, vo2_kg_col)[peak_idx]
                          ELSE NaN
                  IN  [exc |-> "none",
                       plateau |-> plateau,
                       vo2_peak |-> peak_entry(vo2_peak_value),
                       vo2_peak_kg |-> peak_kg_entry(vo2_peak_kg_value),
                       ve_max |-> ve_entry(df_smoothed),
                       hr_max |-> hr_entry(df_smoothed),
                       rer |-> rer_entry(df_smoothed)]

(***************************************************************************)
(* get_vo2_percentage_table (lines 96-113).                                *)
(***************************************************************************)
Deciles == <<10, 20, 30, 40, 50, 60, 70, 80, 90, 100>>

\* line 97: None, 0 or NaN
PeakUnusable(vo2_peak_value) ==
    \/ vo2_peak_value.k = "none"
    \/ (IsNum(vo2_peak_value) /\ vo2_peak_value.n = 0)
    \/ IsNa(vo2_peak_value)

\* line 100
PercentOfPeak(cells, vo2_peak_value) ==
    [i \in 1..Len(cells) |-> FMul(FDiv(cells[i], vo2_peak_value), Num(100))]

\* target_rows.iloc[[-1]]: the last row reaching p
LastRow(rows) == CHOOSE i \in rows : \A j \in rows : i >= j

\* lines 103-105: target_rows.iloc[[0]], the first row reaching p
FirstRow(rows) == CHOOSE i \in rows : \A j \in rows : i <= j

RECURSIVE CollectRows(_, _)
CollectRows(pct, targets) ==
    IF targets = <<>> THEN <<>>
    ELSE LET p == Head(targets)
             target_rows == {i \in 1..Len(pct) : FGe(pct[i], Num(p))}
             rest == CollectRows(pct, Tail(targets))
         IN  IF target_rows # {}
             THEN <<[target |-> p, row |-> FirstRow(target_rows),
                     pct |-> pct[FirstRow(target_rows)]]>> \o rest
             ELSE rest

get_vo2_percentage_table(df_smoothed, vo2_peak_value) ==
    IF PeakUnusable(vo2_peak_value) THEN [exc |-> "none", rows |-> <<>>]
    ELSE IF ~Has(df_smoothed, vo2_col) THEN [exc |-> "KeyError", rows |-> <<>>]
    \* a float column divided by text raises TypeError
    ELSE IF vo2_peak_value.k = "str" THEN [exc |-> "TypeError", rows |-> <<>>]
    ELSE [exc |-> "none",
          rows |-> CollectRows(PercentOfPeak(Col(df_smoothed, vo2_col),
                                             vo2_peak_value), Deciles)]

(***************************************************************************)
(* The run (lines 137-157), one action per call.                           *)
(***************************************************************************)
Pending == [exc |-> "pending"]

\* line 138
ReadAndPrepare ==
    /\ pc = "uploaded"
    /\ LET r == read_and_prepare_data(table)
       IN  IF r.exc = "none"
           THEN df_raw' = r.df /\ pc' = "prepared" /\ err' = err
           ELSE df_raw' = df_raw /\ pc' = "error" /\ err' = r.exc
    /\ UNCHANGED <<table, smoothed_df, final_df, summary, peak_arg, pct_df>>

\* line 139
RollingAverage ==
    /\ pc = "prepared"
    /\ smoothed_df' = perform_30s_rolling_average(df_raw)
    /\ pc' = "smoothed"
    /\ UNCHANGED <<table, df_raw, final_df, summary, peak_arg, pct_df, err>>

\* lines 141-146
DerivedMetrics ==
    /\ pc = "smoothed"
    /\ LET r == derived_metrics(smoothed_df, df_raw)
       IN  /\ final_df' = r.df
           /\ IF r.exc = "none"
              THEN pc' = "derived" /\ err' = err
              ELSE pc' = "error" /\ err' = r.exc
    /\ UNCHANGED <<table, df_raw, smoothed_df, summary, peak_arg, pct_df>>

\* line 151
KeyMetricsSummary ==
    /\ pc = "derived"
    /\ LET r == get_key_metrics_summary(final_df)
       IN  /\ summary' = r
           /\ IF r.exc = "none"
              THEN pc' = "summarized" /\ err' = err
              ELSE pc' = "error" /\ err' = r.exc
    /\ UNCHANGED <<table, df_raw, smoothed_df, final_df, peak_arg, pct_df>>

\* line 157: the peak handed over is the summary's entry
PercentageTable ==
    /\ pc = "summarized"
    /\ peak_arg' = summary.vo2_peak
    /\ LET r == get_vo2_percentage_table(final_df, summary.vo2_peak)
       IN  /\ pct_df' = r
           /\ IF r.exc = "none"
              THEN pc' = "done" /\ err' = err
              ELSE pc' = "error" /\ err' = r.exc
    /\ UNCHANGED <<table, df_raw, smoothed_df, final_df, summary>>

Next ==
    \/ ReadAndPrepare
    \/ RollingAverage
    \/ DerivedMetrics
    \/ KeyMetricsSummary
    \/ PercentageTable

(***************************************************************************)
(* Inputs of the run: uploaded tables.  Raw values are in hundredths.      *)
(***************************************************************************)
H(h) == Rat(h, 100)
Const(n, v) == [i \in 1..n |-> v]
Ramp(n, from, step) == [i \in 1..n |-> H(from + (i - 1) * step)]

lblVO2 == <<"V", "O", "2">>
lblVCO2 == <<"V", "C", "O", "2">>
lblVE == <<"V", "E">>
lblHR == <<"H", "e", "a", "r", "t", "R", "a", "t", "e">>
lblBodyMass == <<"TI", "ZHONG">>

\* raw oxygen-uptake values: increments of the 3-row mean below, at and
\* above 0.15, and means that round up and down at two decimals
RawVO2Pool == {NaN, H(0), H(45), H(46)}

\* tables whose oxygen-uptake column varies freely
VO2Tables ==
    {<<Column(lblVO2, v), Column(lblVCO2, Const(Len(v), H(40)))>> :
        v \in UNION {[1..n -> RawVO2Pool] : n \in 0..MaxRows}}

\* a channel's column of kind "nan", "zero", "val" or "ramp"
Profile(kind, n, base) ==
    IF kind = "nan" THEN Const(n, NaN)
    ELSE IF kind = "zero" THEN Const(n, H(0))
    ELSE IF kind = "val" THEN Const(n, H(base))
    ELSE Ramp(n, base, 7)

OptionalColumn(label, kind, n, base) ==
    IF kind = "absent" THEN <<>> ELSE <<Column(label, Profile(kind, n, base))>>

\* tables in which every channel may be absent, missing, zero or valid
ChannelTables ==
    {OptionalColumn(lblVO2, kv, n, 100)
       \o OptionalColumn(lblVCO2, kc, n, 90)
       \o OptionalColumn(lblVE, ke, n, 3512)
       \o OptionalColumn(lblHR, kh, n, 15040)
       \o OptionalColumn(cVT, kt, n, 120)
       \o OptionalColumn(cBF, kt, n, 2000)
       \o OptionalColumn(lblBodyMass, kb, n, 6500) :
        n \in (MaxRows - 2)..MaxRows,
        kv \in {"absent", "nan", "zero", "ramp"},
        kc \in {"absent", "nan", "zero", "val"},
        ke \in {"absent", "nan", "ramp"},
        kh \in {"absent", "nan", "ramp"},
        kt \in {"absent", "val"},
        kb \in {"absent", "nan", "val"}}

InitWith(tables) ==
    /\ pc = "uploaded"
    /\ table \in tables
    /\ df_raw = <<>>
    /\ smoothed_df = <<>>
    /\ final_df = <<>>
    /\ summary = Pending
    /\ peak_arg = None
    /\ pct_df = Pending
    /\ err = "none"

Init == InitWith(VO2Tables \cup ChannelTables)

Spec == Init /\ [][Next]_vars

(***************************************************************************)
(* The two table functions called on their own, on any smoothed table and  *)
(* any peak argument.                                                      *)
(***************************************************************************)
\* smoothed oxygen-uptake values: increments below (0.14), at (0.15) and
\* above (0.29) the threshold, and decreases
SmoothedVO2Pool == {NaN, H(0), H(14), H(29)}

\* non-decreasing times with ties: 0, 10, 10, 20, 20, ...
TieTimes(n) == [i \in 1..n |-> Num((i \div 2) * SamplingInterval)]

SmoothedVO2Tables ==
    {<<Column(vo2_col, v),
       Column(RAW_TIME_COL, TieTimes(Len(v))),
       Column(vo2_kg_col, ScaleCol(v, Rat(1000, DefaultBodyMass))),
       Column(ve_col, Ramp(Len(v), 3512, 7)),
       Column(hr_col, Ramp(Len(v), 15040, 7)),
       Column(rer_col, Ramp(Len(v), 90, 7))>> :
        v \in UNION {[1..n -> SmoothedVO2Pool] : n \in 0..MaxRows}}

SmoothedChannelTables ==
    {<<Column(vo2_col, Profile(kv, n, 100)),
       Column(RAW_TIME_COL, TieTimes(n))>>
       \o OptionalColumn(vo2_kg_col, kk, n, 1500)
       \o OptionalColumn(ve_col, ke, n, 3512)
       \o OptionalColumn(hr_col, kh, n, 15040)
       \o OptionalColumn(rer_col, kr, n, 90) :
        n \in {0, MaxRows},
        kv \in {"nan", "zero", "ramp"},
        kk \in {"absent", "nan", "ramp"},
        ke \in {"absent", "nan", "ramp"},
        kh \in {"absent", "nan", "ramp"},
        kr \in {"absent", "nan", "ramp"}}

\* peak arguments: None, NaN, the summary's 'N/A', zero, and numbers
PeakArgs == {None, NaN, NA, Num(0), H(14), H(29), H(-29)}

InitCalls ==
    /\ pc = "derived"
    /\ table = <<>>
    /\ df_raw = <<>>
    /\ smoothed_df = <<>>
    /\ final_df \in SmoothedVO2Tables \cup SmoothedChannelTables
    /\ summary = Pending
    /\ peak_arg = None
    /\ pct_df = Pending
    /\ err = "none"

\* get_vo2_percentage_table(df_smoothed, vo2_peak_value) with any peak
CallPercentageTable ==
    /\ pc = "derived"
    /\ \E peak \in PeakArgs :
         /\ peak_arg' = peak
         /\ LET r == get_vo2_percentage_table(final_df, peak)
            IN  /\ pct_df' = r
                /\ IF r.exc = "none"
                   THEN pc' = "done" /\ err' = err
                   ELSE pc' = "error" /\ err' = r.exc
    /\ UNCHANGED <<table, df_raw, smoothed_df, final_df, summary>>

NextCalls ==
    \/ KeyMetricsSummary
    \/ CallPercentageTable

SpecCalls == InitCalls /\ [][NextCalls]_vars

(***************************************************************************)
(* read_and_prepare_data on its own: one-column tables whose label and     *)
(* cells vary.                                                             *)
(***************************************************************************)
Pad(n) == [i \in 1..n |-> " "]

CoreLabels ==
    { lblVO2, <<"v", "o", "2">>, cVO2, <<"V", "'", "O", "SUB2">>,
      lblVCO2, lblVE, cVE, lblHR,
      <<"h", "e", "a", "r", "t", "r", "a", "t", "e">>,
      <<"H", "R", " ", "(", "b", "p", "m", ")">>,
      <<"t">>, <<"T", "i", "m", "e">>, <<"t", "i", "m", "e">>,
      lblBodyMass, <<"f", "o", "o">>, <<"L", "o", "a", "d", " ", "W">> }

LabelPool ==
    {Pad(i) \o core \o Pad(j) : core \in CoreLabels, i \in 0..MaxPad, j \in 0..MaxPad}

\* cells of a text time column: H:MM:SS, MM:SS, an integer, a decimal,
\* other text, the empty text, a missing cell and a number
TimeCellPool ==
    { Str(<<"1", ":", "0", "2", ":", "0", "3">>),
      Str(<<"0", "1", ":", "0", "2">>),
      Str(<<"1", "2">>),
      Str(<<"1", ".", "5">>),
      Str(<<"a", "b", "c">>),
      Str(<<>>),
      NaN,
      Num(7) }

TimeColumns == UNION {[1..n -> TimeCellPool] : n \in 0..MaxTimeRows}

PrepareTables ==
    {<<Column(label, cells)>> :
        label \in {<<"t">>, <<"T", "i", "m", "e">>, lblBodyMass},
        cells \in TimeColumns}
    \cup
    {<<Column(label, cells)>> :
        label \in LabelPool,
        cells \in {<<Str(<<"0", "0", ":", "1", "0">>), Str(<<"0", "0", ":", "2", "0">>)>>,
                   <<NaN, H(6000), NaN>>}}

InitPrepare == InitWith(PrepareTables)

NextPrepare == ReadAndPrepare

SpecPrepare == InitPrepare /\ [][NextPrepare]_vars

(***************************************************************************)
(* Properties of the run (specification Spec).                             *)
(***************************************************************************)
Rolled == smoothed_df # <<>>
ChannelsOf(df) == {COLS_TO_PROCESS[c] : c \in {d \in 1..Len(COLS_TO_PROCESS) : Has(df, COLS_TO_PROCESS[d])}}

\* the mean of raw rows i-2..i when all three exist and are non-missing,
\* missing otherwise
MeanOfLastThree(cells, i) ==
    IF i >= 3 /\ \A j \in (i - 2)..i : ~IsNa(cells[j])
    THEN FDiv(FAdd(FAdd(cells[i - 2], cells[i - 1]), cells[i]), Num(3))
    ELSE NaN

\* C8: perform_30s_rolling_average keeps the row count; for every configured
\* channel present and every row i the smoothed value is the mean of raw
\* rows i-2..i when all three exist and are non-missing and is missing
\* otherwise; replacing the value of any row after i by any other value
\* leaves the smoothed value at i unchanged.
C8_RollingMeanIsTrailingAndCausal ==
    Rolled =>
        /\ NRows(smoothed_df) = NRows(df_raw)
        /\ \A c \in ChannelsOf(df_raw) :
             /\ Has(smoothed_df, Suffix30s(c))
             /\ LET raw == Col(df_raw, c)
                    sm == Col(smoothed_df, Suffix30s(c))
                IN  /\ Len(sm) = Len(raw)
                    /\ \A i \in 1..Len(raw) :
                         /\ sm[i] = MeanOfLastThree(raw, i)
                         /\ \A j \in (i + 1)..Len(raw) : \A v \in RawVO2Pool :
                              rolling_mean([raw EXCEPT ![j] = v])[i] = sm[i]

\* a smoothed oxygen-uptake column with a value at row 3 and, because of a
\* missing raw value, none at row 4
C8_Witness ==
    /\ Rolled
    /\ Has(smoothed_df, vo2_col)
    /\ Len(Col(smoothed_df, vo2_col)) >= 4
    /\ IsNum(Col(smoothed_df, vo2_col)[3])
    /\ IsNa(Col(smoothed_df, vo2_col)[4])

Derived == Has(final_df, rer_col)

\* C5: at every row where the smoothed oxygen uptake is zero or missing the
\* respiratory exchange ratio is the missing marker (never infinity); at
\* every other row it is smoothed CO2 output / smoothed oxygen uptake.
C5_RerMissingWhereUptakeZeroOrMissing ==
    Derived =>
        LET vo2 == Col(final_df, vo2_col)
            vco2 == Col(final_df, vco2_col)
            rer == Col(final_df, rer_col)
        IN  \A i \in 1..Len(rer) :
              IF IsNa(vo2[i]) \/ vo2[i] = Num(0)
              THEN rer[i] = NaN
              ELSE rer[i] = (IF IsNa(vco2[i]) THEN NaN
                             ELSE Rat(vco2[i].n * vo2[i].d, vco2[i].d * vo2[i].n))

\* the uploaded table has an oxygen-uptake column (under any alias)
HasUploaded(name) == \E i \in 1..Len(table) : NormalizeLabel(table[i].name) = name
UploadedCol(name) ==
    table[CHOOSE i \in 1..Len(table) : NormalizeLabel(table[i].name) = name].cells

\* the oxygen-uptake channel is there and has at least one full window
UptakeUsable ==
    /\ HasUploaded(cVO2)
    /\ Len(UploadedCol(cVO2)) >= ROLL_WINDOW_ROWS
    /\ \A i \in 1..Len(UploadedCol(cVO2)) : ~IsNa(UploadedCol(cVO2)[i])

\* C6: for a table that has the oxygen-uptake channel (with data), whatever
\* subset of the other configured channels is absent, the run (smoothing,
\* derived metrics, summary, percentage table) ends without an exception.
C6_AbsentChannelsNeverRaise ==
    UptakeUsable => err = "none"

\* the detected peak: the maximum of the non-missing smoothed oxygen uptake
DetectedPeak(df) == SeriesMax(Col(df, vo2_col))

\* rows whose smoothed oxygen uptake / peak * 100 is at least p
RowsReaching(df, peak, p) ==
    {i \in 1..NRows(df) :
        LET v == Col(df, vo2_col)[i]
        IN  /\ IsNum(v) /\ IsNum(peak) /\ peak.n > 0
            /\ 100 * v.n * peak.d >= p * peak.n * v.d}

EntryFor(rows, p) == {k \in 1..Len(rows) : rows[k].target = p}

\* C2: in one run, for every decile p the percentage table holds exactly the
\* first row whose smoothed oxygen uptake / detected peak * 100 is >= p, and
\* omits p only when no row reaches it; the entries are in ascending decile
\* order and each attained percentage is >= its target.
C2_TableHoldsFirstRowPerDecileOfDetectedPeak ==
    pc = "done" =>
        LET rows == pct_df.rows
            peak == DetectedPeak(final_df)
        IN  /\ \A d \in 1..Len(Deciles) :
                 LET p == Deciles[d]
                     reach == RowsReaching(final_df, peak, p)
                 IN  IF reach = {} THEN EntryFor(rows, p) = {}
                     ELSE /\ Cardinality(EntryFor(rows, p)) = 1
                          /\ \A k \in EntryFor(rows, p) :
                               rows[k].row = FirstRow(reach)
            /\ \A k \in 1..(Len(rows) - 1) : rows[k].target < rows[k + 1].target
            /\ \A k \in 1..Len(rows) : FGe(rows[k].pct, Num(rows[k].target))

(***************************************************************************)
(* Properties of the table functions (specification SpecCalls).            *)
(***************************************************************************)
SummaryCalled == summary # Pending
TableCalled == pct_df # Pending

\* the non-missing smoothed oxygen-uptake values, in row order
NonMissing(cells) == SelectSeq(cells, LAMBDA v : ~IsNa(v))

\* b - a < 0.15
IncrementBelowThreshold(a, b) ==
    (b.n * a.d - a.n * b.d) * ThresholdDen < ThresholdNum * a.d * b.d

\* two valid terminal increments, both strictly below the threshold
PlateauExpected(df) ==
    LET v == NonMissing(Col(df, vo2_col))
        n == Len(v)
    IN  /\ n >= 3
        /\ IncrementBelowThreshold(v[n - 2], v[n - 1])
        /\ IncrementBelowThreshold(v[n - 1], v[n])

\* C1: get_key_metrics_summary reports plateau as true iff the non-missing
\* smoothed oxygen-uptake series has two valid terminal increments and both
\* are strictly below 0.15; with 0, 1 or 2 non-missing values it reports
\* plateau as false.
C1_PlateauReportedIffTwoSmallIncrements ==
    SummaryCalled =>
        /\ summary.exc = "none"
        /\ summary.plateau = PlateauExpected(final_df)

\* whenever the summary is returned, its plateau flag follows the rule
PlateauRuleWhenSummaryReturned ==
    (SummaryCalled /\ summary.exc = "none") =>
        summary.plateau = PlateauExpected(final_df)

\* C3: whenever the peak handed to get_vo2_percentage_table is zero, None,
\* NaN or the summary's 'N/A', the returned table is empty and nothing is
\* raised.
C3_UnusablePeakGivesEmptyTable ==
    (TableCalled /\ peak_arg \in {Num(0), None, NaN, NA}) =>
        /\ pct_df.exc = "none"
        /\ pct_df.rows = <<>>

AllMissing(df, col) ==
    Has(df, col) /\ \A i \in 1..Len(Col(df, col)) : IsNa(Col(df, col)[i])

\* C4: when the oxygen-uptake, ventilation, heart-rate or RER series of the
\* smoothed table is empty or entirely missing, get_key_metrics_summary
\* returns normally and every metric computed from such a series is 'N/A'.
C4_EmptySeriesGiveNotAvailable ==
    (SummaryCalled /\ \E col \in {vo2_col, ve_col, hr_col, rer_col} :
                          AllMissing(final_df, col)) =>
        /\ summary.exc = "none"
        /\ AllMissing(final_df, vo2_col) =>
               (summary.vo2_peak = NA /\ summary.vo2_peak_kg = NA)
        /\ AllMissing(final_df, ve_col) => summary.ve_max = NA
        /\ AllMissing(final_df, hr_col) => summary.hr_max = NA
        /\ AllMissing(final_df, rer_col) => summary.rer = NA

TimesNonDecreasing(df) ==
    \A i \in 1..(NRows(df) - 1) :
        ~FLt(Col(df, RAW_TIME_COL)[i + 1], Col(df, RAW_TIME_COL)[i])

\* C10: for a table in non-decreasing time order and any peak that gives a
\* non-empty percentage table, the rows selected for increasing deciles have
\* non-decreasing positions and non-decreasing times.
C10_SelectedRowsNonDecreasing ==
    (TableCalled /\ pct_df.exc = "none" /\ pct_df.rows # <<>>
       /\ TimesNonDecreasing(final_df)) =>
        \A k \in 1..(Len(pct_df.rows) - 1) :
            LET a == pct_df.rows[k]
                b == pct_df.rows[k + 1]
                t == Col(final_df, RAW_TIME_COL)
            IN  /\ a.target < b.target
                /\ a.row <= b.row
                /\ ~FLt(t[b.row], t[a.row])

\* a table whose higher decile is reached at a later row and a later time
C10_Witness ==
    /\ TableCalled /\ pct_df.exc = "none"
    /\ TimesNonDecreasing(final_df)
    /\ \E k \in 1..(Len(pct_df.rows) - 1) :
         /\ pct_df.rows[k].row < pct_df.rows[k + 1].row
         /\ FLt(Col(final_df, RAW_TIME_COL)[pct_df.rows[k].row],
                Col(final_df, RAW_TIME_COL)[pct_df.rows[k + 1].row])

(***************************************************************************)
(* Properties of read_and_prepare_data (specification SpecPrepare).        *)
(***************************************************************************)
Prepared == pc = "prepared"
PrepareCalled == pc # "uploaded"

\* the fields of a text between occurrences of one separator
RECURSIVE FieldsBy(_, _, _, _)
FieldsBy(s, sep, cur, acc) ==
    IF s = <<>> THEN Append(acc, cur)
    ELSE IF Head(s) = sep THEN FieldsBy(Tail(s), sep, <<>>, Append(acc, cur))
    ELSE FieldsBy(Tail(s), sep, Append(cur, Head(s)), acc)

AllDigits(s) == s # <<>> /\ \A i \in 1..Len(s) : IsDigit(s[i])

\* the number of seconds a time cell stands for: H:MM:SS, MM:SS, an integer
\* or a decimal; missing for anything else
SecondsOf(cell) ==
    IF cell.k # "str" THEN (IF IsNum(cell) THEN cell ELSE NaN)
    ELSE LET byColon == FieldsBy(cell.s, ":", <<>>, <<>>)
             byDot == FieldsBy(cell.s, ".", <<>>, <<>>)
         IN  IF Len(byColon) = 3 /\ \A i \in 1..3 : AllDigits(byColon[i])
             THEN Num(DigitsValue(byColon[1], 0) * 3600
                      + DigitsValue(byColon[2], 0) * 60
                      + DigitsValue(byColon[3], 0))
             ELSE IF Len(byColon) = 2 /\ \A i \in 1..2 : AllDigits(byColon[i])
             THEN Num(DigitsValue(byColon[1], 0) * 60 + DigitsValue(byColon[2], 0))
             ELSE IF AllDigits(cell.s) THEN Num(DigitsValue(cell.s, 0))
             ELSE IF Len(byDot) = 2 /\ AllDigits(byDot[1]) /\ Len(byDot[2]) = 1
                     /\ AllDigits(byDot[2])
             THEN Rat(DigitsValue(byDot[1], 0) * 10 + DigitsValue(byDot[2], 0), 10)
             ELSE NaN

\* each missing value replaced by the nearest preceding valid value
FilledForward(cells) ==
    [i \in 1..Len(cells) |->
        LET valid == {j \in 1..i : ~IsNa(cells[j])}
        IN  IF valid = {} THEN NaN
            ELSE cells[CHOOSE j \in valid : \A h \in valid : h <= j]]

UploadedTimeHoldsText ==
    /\ HasUploaded(RAW_TIME_COL)
    /\ \E i \in 1..Len(UploadedCol(RAW_TIME_COL)) :
         UploadedCol(RAW_TIME_COL)[i].k = "str"

\* C7: when the elapsed-time column holds text, read_and_prepare_data never
\* raises, whatever the cells (missing cells and non-time text included);
\* every H:MM:SS, MM:SS or bare numeric (integer or decimal) value becomes
\* its number of seconds, every other value becomes missing, and missing
\* values are then filled from the nearest preceding valid value.
C7_TimeTextNeverRaisesAndParses ==
    (PrepareCalled /\ UploadedTimeHoldsText) =>
        /\ err = "none"
        /\ Col(df_raw, RAW_TIME_COL) =
             FilledForward([i \in 1..Len(UploadedCol(RAW_TIME_COL)) |->
                               SecondsOf(UploadedCol(RAW_TIME_COL)[i])])

\* whenever every cell of the time column is text made of colon-separated
\* or plain digits (no decimal point), the column is parsed to seconds and
\* forward-filled
TimeParsedWhenAllCellsAreColonText ==
    (PrepareCalled /\ UploadedTimeHoldsText
       /\ \A i \in 1..Len(UploadedCol(RAW_TIME_COL)) :
            /\ UploadedCol(RAW_TIME_COL)[i].k = "str"
            /\ \A j \in 1..Len(UploadedCol(RAW_TIME_COL)[i].s) :
                 UploadedCol(RAW_TIME_COL)[i].s[j] # ".") =>
        /\ err = "none"
        /\ Col(df_raw, RAW_TIME_COL) =
             FilledForward([i \in 1..Len(UploadedCol(RAW_TIME_COL)) |->
                               SecondsOf(UploadedCol(RAW_TIME_COL)[i])])

\* lower-case letter of an upper-case one (the letters the labels use)
CasePairs ==
    { <<"V", "v">>, <<"O", "o">>, <<"C", "c">>, <<"E", "e">>, <<"H", "h">>,
      <<"R", "r">>, <<"T", "t">>, <<"L", "l">>, <<"W", "w">> }
LowerChar(c) ==
    IF \E q \in CasePairs : q[1] = c
    THEN (CHOOSE q \in CasePairs : q[1] = c)[2]
    ELSE c
Lower(s) == [i \in 1..Len(s) |-> LowerChar(s[i])]

\* the label without its surrounding blanks
Core(label) ==
    LET inked == {i \in 1..Len(label) : label[i] # " "}
    IN  IF inked = {} THEN <<>>
        ELSE SubSeq(label,
                    CHOOSE i \in inked : \A j \in inked : i <= j,
                    CHOOSE i \in inked : \A j \in inked : i >= j)

CanonicalOf(alias) == (CHOOSE q \in CANONICAL_NAMES : q[1] = alias)[2]

\* the aliases a label equals ignoring letter case and surrounding blanks
AliasesIgnoringCase(label) ==
    {a \in Aliases : Lower(Core(a)) = Lower(Core(label))}

\* the original statement of C9: a label equal to a known alias ignoring
\* letter case and surrounding whitespace is replaced by the canonical name,
\* and every label that matches no alias is passed through unchanged.
C9_AliasMatchIgnoresCaseAndBlanks ==
    Prepared =>
        LET label == table[1].name
            out == df_raw[1].name
        IN  IF AliasesIgnoringCase(label) # {}
            THEN \E a \in AliasesIgnoringCase(label) : out = CanonicalOf(a)
            ELSE out = label

\* C9: a label that, without its surrounding whitespace, equals a known
\* alias exactly (letter case included) is replaced by the canonical name;
\* every other label is passed through with its surrounding whitespace
\* removed, also when it differs from an alias only in letter case.
C9_AliasMatchIsExactAfterStrip ==
    Prepared =>
        LET label == table[1].name
            out == df_raw[1].name
        IN  IF Core(label) \in Aliases
            THEN out = CanonicalOf(Core(label))
            ELSE out = Core(label)

\* a padded alias (such as ' VO2 ') renamed to its canonical name
C9_Witness ==
    /\ Prepared
    /\ table[1].name # Core(table[1].name)
    /\ Core(table[1].name) \in Aliases
    /\ df_raw[1].name = CanonicalOf(Core(table[1].name))
    /\ df_raw[1].name # Core(table[1].name)

====
